---- MODULE Spec2Model ----
(***************************************************************************)
(* The moderated-comments store of the moderator front-end: the reducer    *)
(* moderatedCommentsReducer, which keeps, per article and per category,    *)
(* seven named lists of comment ids, and its selectors.                    *)
(*                                                                         *)
(* The store holds Immutable.js values.  A Map is modelled as a function   *)
(* whose DOMAIN is the set of keys it has, a List as a sequence.  An       *)
(* updater that is handed undefined (the key path names nothing) calls a   *)
(* method of undefined and throws a TypeError; the reducer then throws,    *)
(* and the dispatch leaves the store as it was.                            *)
(***************************************************************************)
EXTENDS Integers, Sequences, FiniteSets, TLC

VARIABLES state, prev, last, nOps, detail, loads

vars == <<state, prev, last, nOps, detail, loads>>

(***************************************************************************)
(* Bounds of the model.                                                    *)
(***************************************************************************)
\* Number of calls of the store (actions dispatched, selector reads) in one behaviour.
MaxOps == 2

\* Number of calls of the store after the loads SpecLoaded starts from.
MaxOpsLoaded == 1

\* Number of calls of loadModeratedCommentsForArticle / ...ForCategory that overlap.
MaxLoads == 2

\* Comment ids, in the order the data service lists them.
IdOrder == <<"c1", "c2">>

Ids == {IdOrder[i] : i \in 1..Len(IdOrder)}

\* Article ids and category ids: the same strings name an article and a category.
ScopeKeys == {"1", "2"}

\* The seven lists the data service returns for an article or a category.
BucketNames == {"approved", "highlighted", "rejected", "deferred", "flagged", "batched", "automated"}

\* moderationAction values handed to the reducer; "flag" is a name ACTION_PLURAL
\* does not hold.
ModerationActions == {"approve", "reject", "defer", "highlight", "reset", "tag", "flag"}

\* currentModeration values handed to the reducer; "new" names no list.
Moderations == BucketNames \cup {"new"}

\* The commentIds arrays: the non-empty sequences of distinct ids.
CommentIdLists == {<<i>> : i \in Ids} \cup {<<i, j>> : <<i, j>> \in {p \in Ids \X Ids : p[1] # p[2]}}

(***************************************************************************)
(* ACTION_PLURAL: the list an action's comments go to; "undefined" for an  *)
(* action the table does not hold.                                         *)
(***************************************************************************)
ACTION_PLURAL(moderationAction) ==
  CASE moderationAction = "highlight" -> "highlighted"
    [] moderationAction = "approve"   -> "approved"
    [] moderationAction = "defer"     -> "deferred"
    [] moderationAction = "reject"    -> "rejected"
    [] moderationAction = "tag"       -> "tagged"
    [] OTHER                          -> "undefined"

(***************************************************************************)
(* Immutable.js List and Map operations the reducer uses.                  *)
(***************************************************************************)
\* List.findIndex(item => item === commentId): 0-based, -1 when absent.
findIndex(list, commentId) ==
  IF \E i \in 1..Len(list) : list[i] = commentId
  THEN (CHOOSE i \in 1..Len(list) :
          list[i] = commentId /\ \A j \in 1..(i - 1) : list[j] # commentId) - 1
  ELSE -1

\* List.delete(index): a negative index counts back from the end of the list.
ListDelete(list, index) ==
  LET size == Len(list)
      wrapped == IF index < 0 THEN size + index ELSE index
  IN IF wrapped < 0 \/ wrapped >= size
     THEN list
     ELSE SubSeq(list, 1, wrapped) \o SubSeq(list, wrapped + 2, size)

\* Whether the key path [key, bucket] names a value of the map.
HasIn(map, key, bucket) == key \in DOMAIN map /\ bucket \in DOMAIN map[key]

\* A set that merges with the value the key had: each list of the old value is
\* kept and the new one appended to it (the change C15 must detect).
MapSet_Merge(map, key, value) ==
  [k \in DOMAIN map \cup {key} |->
     IF k # key THEN map[k]
     ELSE IF key \in DOMAIN map
     THEN [b \in DOMAIN value |-> (IF b \in DOMAIN map[key] THEN map[key][b] ELSE <<>>) \o value[b]]
     ELSE value]

\* Map.set(key, value).
MapSet(map, key, value) ==
  [k \in DOMAIN map \cup {key} |-> IF k = key THEN value ELSE map[k]]

\* The outcome of an updateIn: the new map, or a TypeError thrown by the updater.
Returned(map) == [threw |-> FALSE, map |-> map]

Thrown(map) == [threw |-> TRUE, map |-> map]

\* A delete that takes the id out of the named list of every scope of the map
\* (the change C16 must detect).
UpdateInDelete_EveryScope(map, key, bucket, commentId) ==
  IF key \in DOMAIN map /\ bucket \in DOMAIN map[key]
  THEN [threw |-> FALSE,
        map |-> [k \in DOMAIN map |->
                   [map[k] EXCEPT ![bucket] =
                      IF \E i \in 1..Len(@) : @[i] = commentId
                      THEN SelectSeq(@, LAMBDA x : x # commentId)
                      ELSE IF k = key /\ Len(@) > 0 THEN SubSeq(@, 1, Len(@) - 1) ELSE @]]]
  ELSE [threw |-> TRUE, map |-> map]

\* map.updateIn([key, bucket], moderated => moderated.delete(moderated.findIndex(...))).
UpdateInDelete(map, key, bucket, commentId) ==
  IF HasIn(map, key, bucket)
  THEN Returned([map EXCEPT ![key][bucket] = ListDelete(@, findIndex(@, commentId))])
  ELSE Thrown(map)

\* A push whose updater starts a list when the scope has none of that name, as
\* updateIn(keyPath, List(), updater) would (the change C13 must detect).
UpdateInPush_CreatesList(map, key, bucket, commentId) ==
  IF key \in DOMAIN map
  THEN [threw |-> FALSE,
        map |-> [map EXCEPT ![key] =
                   [b \in DOMAIN @ \cup {bucket} |->
                      IF b = bucket
                      THEN (IF b \in DOMAIN @ THEN @[b] ELSE <<>>) \o <<commentId>>
                      ELSE @[b]]]]
  ELSE [threw |-> TRUE, map |-> map]

\* map.updateIn([key, bucket], item => item.push(commentId)).
UpdateInPush(map, key, bucket, commentId) ==
  IF HasIn(map, key, bucket)
  THEN Returned([map EXCEPT ![key][bucket] = Append(@, commentId)])
  ELSE Thrown(map)

\* map.updateIn([first, key, bucket], item => item.push(commentId)): a key path of
\* three keys.  The store's maps are two levels deep (scope, then list name), so a
\* third key names a value only if map[first][key] is itself a map.
UpdateInPush3(map, first, key, bucket, commentId) ==
  IF first \in DOMAIN map /\ key \in DOMAIN map[first] /\ bucket \in DOMAIN map[first][key]
  THEN Returned([map EXCEPT ![first][key][bucket] = Append(@, commentId)])
  ELSE Thrown(map)

(***************************************************************************)
(* The store.                                                              *)
(***************************************************************************)
\* fromJS of what the data service returns: one list per name, each in the
\* service's order.  disposition says, for each comment id, the list it is in
\* ("none": in no list); a highlighted comment is also listed as approved.
ModeratedComments(disposition) ==
  [b \in BucketNames |->
     SelectSeq(IdOrder, LAMBDA i : disposition[i] = b
                                   \/ (b = "approved" /\ disposition[i] = "highlighted"))]

\* The payloads of this model: the comments the service lists are all in the same list.
Dispositions ==
  {d \in [Ids -> BucketNames \cup {"none"}] :
     \A i, j \in Ids : d[i] = "none" \/ d[j] = "none" \/ d[i] = d[j]}

Payloads == {ModeratedComments(d) : d \in Dispositions}

NoComments == [b \in BucketNames |-> <<>>]

NoMap == [k \in {} |-> NoComments]

initialState == [isLoading |-> TRUE, articles |-> NoMap, categories |-> NoMap]

\* The value of the case label 'reject' || 'defer': the first operand when it is
\* truthy (a non-empty string is), the second otherwise.
LogicalOr(a, b) == IF a # "" THEN a ELSE b

RejectOrDeferLabel == LogicalOr("reject", "defer")

\* shouldRemoveFromList without its first alternative: a highlight of a highlighted
\* comment removes nothing (the change C6's amended statement must detect).
shouldRemoveFromList_NoToggle(currentModeration, moderationAction) ==
  /\ currentModeration # "batched"
  /\ currentModeration # "automated"
  /\ currentModeration # "highlighted"
  /\ moderationAction # "highlight"

\* shouldRemoveFromList without its test of the action: every list but batched and
\* automated is removed from, whatever the action (the change C12's amended
\* statement must detect).
shouldRemoveFromList_AnyAction(currentModeration, moderationAction) ==
  /\ currentModeration # "batched"
  /\ currentModeration # "automated"

\* shouldRemoveFromList with each of its two alternatives negated (the change
\* C24's amended statement must detect).
shouldRemoveFromList_Negated(currentModeration, moderationAction) ==
  /\ currentModeration # "batched"
  /\ currentModeration # "automated"
  /\ ~(currentModeration = "highlighted" /\ moderationAction = "highlight")
  /\ ~(currentModeration # "highlighted" /\ moderationAction # "highlight")

shouldRemoveFromList(currentModeration, moderationAction) ==
  /\ currentModeration # "batched"
  /\ currentModeration # "automated"
  /\ \/ (currentModeration = "highlighted" /\ moderationAction = "highlight")
     \/ (currentModeration # "highlighted" /\ moderationAction # "highlight")

\* The if (shouldRemoveFromList) statement of either handler: its result is assigned.
RemovalStep(map, key, commentId, moderationAction, currentModeration) ==
  IF shouldRemoveFromList(currentModeration, moderationAction)
  THEN UpdateInDelete(map, key, currentModeration, commentId)
  ELSE Returned(map)

\* The switch of the articles handler.  Only the 'highlight' case assigns what its
\* updateIn calls return; the other cases call updateIn and drop the result, so
\* the map stays as it was unless the updater throws.
ArticleInsertionStep(articles, articleId, commentId, moderationAction, currentModeration) ==
  IF moderationAction = RejectOrDeferLabel
  THEN LET dropped == UpdateInPush(articles, articleId, ACTION_PLURAL(moderationAction), commentId)
       IN IF dropped.threw THEN Thrown(articles) ELSE Returned(articles)
  ELSE IF moderationAction = "highlight"
  THEN IF currentModeration = "highlighted" /\ moderationAction = "highlight"
       THEN Returned(articles)
       ELSE LET first == UpdateInPush(articles, articleId, ACTION_PLURAL(moderationAction), commentId)
            IN IF first.threw
               THEN Thrown(articles)
               ELSE UpdateInPush3(first.map, "articles", articleId, "approved", commentId)
  ELSE IF moderationAction = "reset"
  THEN Returned(articles)
  ELSE LET dropped == UpdateInPush(articles, articleId, ACTION_PLURAL(moderationAction), commentId)
       IN IF dropped.threw THEN Thrown(articles) ELSE Returned(articles)

\* The switch of the categories handler: every case assigns what updateIn returns.
CategoryInsertionStep(categories, category, commentId, moderationAction, currentModeration) ==
  IF moderationAction = RejectOrDeferLabel
  THEN UpdateInPush(categories, category, ACTION_PLURAL(moderationAction), commentId)
  ELSE IF moderationAction = "highlight"
  THEN IF currentModeration = "highlighted" /\ moderationAction = "highlight"
       THEN Returned(categories)
       ELSE LET first == UpdateInPush(categories, category, ACTION_PLURAL(moderationAction), commentId)
            IN IF first.threw
               THEN Thrown(categories)
               ELSE UpdateInPush(first.map, category, "approved", commentId)
  ELSE IF moderationAction = "reset"
  THEN Returned(categories)
  ELSE UpdateInPush(categories, category, ACTION_PLURAL(moderationAction), commentId)

\* commentIds.forEach(...) of the articles handler; a throw ends the loop.
RECURSIVE ArticlesForEach(_, _, _, _, _)
ArticlesForEach(articles, articleId, commentIds, moderationAction, currentModeration) ==
  IF commentIds = <<>>
  THEN Returned(articles)
  ELSE LET removed == RemovalStep(articles, articleId, Head(commentIds),
                                  moderationAction, currentModeration)
           inserted == ArticleInsertionStep(removed.map, articleId, Head(commentIds),
                                            moderationAction, currentModeration)
       IN IF removed.threw THEN removed
          ELSE IF inserted.threw THEN inserted
          ELSE ArticlesForEach(inserted.map, articleId, Tail(commentIds),
                               moderationAction, currentModeration)

\* commentIds.forEach(...) of the categories handler.
RECURSIVE CategoriesForEach(_, _, _, _, _)
CategoriesForEach(categories, category, commentIds, moderationAction, currentModeration) ==
  IF commentIds = <<>>
  THEN Returned(categories)
  ELSE LET removed == RemovalStep(categories, category, Head(commentIds),
                                  moderationAction, currentModeration)
           inserted == CategoryInsertionStep(removed.map, category, Head(commentIds),
                                             moderationAction, currentModeration)
       IN IF removed.threw THEN removed
          ELSE IF inserted.threw THEN inserted
          ELSE CategoriesForEach(inserted.map, category, Tail(commentIds),
                                 moderationAction, currentModeration)

(***************************************************************************)
(* The selectors.                                                          *)
(***************************************************************************)
\* What Map.get returns for a key the map does not have.
Undefined == [undefined |-> TRUE]

\* Map.get(key).
MapGet(map, key) == IF key \in DOMAIN map THEN map[key] ELSE Undefined

getIsLoading(stateRecord) == stateRecord.isLoading

getModeratedCommentsForArticle(stateRecord) == stateRecord.articles

getModeratedCommentsForCategory(stateRecord) == stateRecord.categories

\* The selector without its has() tests and default state: Map.get alone (the
\* change C14 must detect).
getModeratedComments_NoDefault(stateRecord, isArticle, contextId) ==
  IF isArticle
  THEN MapGet(getModeratedCommentsForArticle(stateRecord), contextId)
  ELSE MapGet(getModeratedCommentsForCategory(stateRecord), contextId)

\* getModeratedComments(state, params): isArticle is isArticleContext(params),
\* contextId is params.contextId.
getModeratedComments(stateRecord, isArticle, contextId) ==
  LET articles == getModeratedCommentsForArticle(stateRecord)
      categories == getModeratedCommentsForCategory(stateRecord)
  IN IF isArticle /\ contextId \in DOMAIN articles
     THEN MapGet(articles, contextId)
     ELSE IF ~isArticle /\ contextId \in DOMAIN categories
     THEN MapGet(categories, contextId)
     ELSE NoComments

(***************************************************************************)
(* History of the dispatch in progress: last is what was dispatched and    *)
(* prev the store before it.  The record is kept until the dispatch has    *)
(* returned and dropped before the next action is dispatched, so that the  *)
(* state after a dispatch shows the reducer's input beside its output.     *)
(***************************************************************************)
Dispatched(op, isCategory, scope, commentIds, moderationAction, currentModeration, moderatedComments, threw) ==
  [op |-> op, isCategory |-> isCategory, scope |-> scope, commentIds |-> commentIds,
   moderationAction |-> moderationAction, currentModeration |-> currentModeration,
   moderatedComments |-> moderatedComments, threw |-> threw]

NothingDispatched == Dispatched("none", FALSE, "", <<>>, "", "", NoComments, FALSE)

\* No CommentDetail component is mounted.
NoDetail == [pc |-> "unmounted"]

\* No call of loadModeratedCommentsForArticle or ...ForCategory is in progress.
NoLoads == <<>>

\* An action can be dispatched: the store runs one reducer call at a time.
Idle == last.op = "none" /\ nOps < MaxOps

Init ==
  /\ state = initialState
  /\ prev = initialState
  /\ last = NothingDispatched
  /\ nOps = 0
  /\ detail = NoDetail
  /\ loads = NoLoads

\* The dispatch has returned (or thrown) to its caller.
dispatchReturned ==
  /\ last.op # "none"
  /\ last' = NothingDispatched
  /\ prev' = state
  /\ UNCHANGED <<state, nOps, detail, loads>>

loadModeratedCommentsStart ==
  /\ Idle
  /\ state' = [state EXCEPT !.isLoading = TRUE]
  /\ prev' = state
  /\ last' = Dispatched("startLoad", FALSE, "", <<>>, "", "", NoComments, FALSE)
  /\ nOps' = nOps + 1
  /\ UNCHANGED <<detail, loads>>

loadModeratedCommentsForArticleComplete ==
  /\ Idle
  /\ \E articleId \in ScopeKeys, moderatedComments \in Payloads :
       /\ state' = [state EXCEPT !.isLoading = FALSE,
                                 !.articles = MapSet(@, articleId, moderatedComments)]
       /\ last' = Dispatched("load", FALSE, articleId, <<>>, "", "", moderatedComments, FALSE)
  /\ prev' = state
  /\ nOps' = nOps + 1
  /\ UNCHANGED <<detail, loads>>

\* A category load that leaves isLoading as it was (the change C17 must detect).
loadModeratedCommentsForCategoryComplete_KeepsLoading ==
  /\ Idle
  /\ \E category \in ScopeKeys, moderatedComments \in Payloads :
       /\ state' = [state EXCEPT !.categories = MapSet(@, category, moderatedComments)]
       /\ last' = Dispatched("load", TRUE, category, <<>>, "", "", moderatedComments, FALSE)
  /\ prev' = state
  /\ nOps' = nOps + 1
  /\ UNCHANGED <<detail, loads>>

loadModeratedCommentsForCategoryComplete ==
  /\ Idle
  /\ \E category \in ScopeKeys, moderatedComments \in Payloads :
       /\ state' = [state EXCEPT !.isLoading = FALSE,
                                 !.categories = MapSet(@, category, moderatedComments)]
       /\ last' = Dispatched("load", TRUE, category, <<>>, "", "", moderatedComments, FALSE)
  /\ prev' = state
  /\ nOps' = nOps + 1
  /\ UNCHANGED <<detail, loads>>

setCommentsModerationForArticlesAction ==
  /\ Idle
  /\ \E articleId \in ScopeKeys, commentIds \in CommentIdLists,
        moderationAction \in ModerationActions, currentModeration \in Moderations :
       LET result == ArticlesForEach(state.articles, articleId, commentIds,
                                     moderationAction, currentModeration)
       IN /\ state' = IF result.threw THEN state
                      ELSE [state EXCEPT !.articles = result.map]
          /\ last' = Dispatched("transition", FALSE, articleId, commentIds, moderationAction,
                                currentModeration, NoComments, result.threw)
  /\ prev' = state
  /\ nOps' = nOps + 1
  /\ UNCHANGED <<detail, loads>>

setCommentsModerationForCategoriesAction ==
  /\ Idle
  /\ \E category \in ScopeKeys, commentIds \in CommentIdLists,
        moderationAction \in ModerationActions, currentModeration \in Moderations :
       LET result == CategoriesForEach(state.categories, category, commentIds,
                                       moderationAction, currentModeration)
       IN /\ state' = IF result.threw THEN state
                      ELSE [state EXCEPT !.categories = result.map]
          /\ last' = Dispatched("transition", TRUE, category, commentIds, moderationAction,
                                currentModeration, NoComments, result.threw)
  /\ prev' = state
  /\ nOps' = nOps + 1
  /\ UNCHANGED <<detail, loads>>

\* A selector that stores the default state it hands out for a scope the store
\* does not have (the change C18 must detect).
selectModeratedComments_StoresDefault ==
  /\ Idle
  /\ \E isCategory \in BOOLEAN, contextId \in ScopeKeys :
       LET result == getModeratedComments(state, ~isCategory, contextId)
       IN /\ last' = Dispatched("read", isCategory, contextId, <<>>, "", "", result, FALSE)
          /\ state' = IF isCategory
                      THEN [state EXCEPT !.categories = MapSet(@, contextId, result)]
                      ELSE [state EXCEPT !.articles = MapSet(@, contextId, result)]
  /\ prev' = state
  /\ nOps' = nOps + 1
  /\ UNCHANGED <<detail, loads>>

\* A component reads the lists of a context through the selector; last keeps what
\* the selector returned.  The selector assigns nothing.
selectModeratedComments ==
  /\ Idle
  /\ \E isCategory \in BOOLEAN, contextId \in ScopeKeys :
       last' = Dispatched("read", isCategory, contextId, <<>>, "", "",
                          getModeratedComments(state, ~isCategory, contextId), FALSE)
  /\ state' = state
  /\ prev' = state
  /\ nOps' = nOps + 1
  /\ UNCHANGED <<detail, loads>>

\* A component reads the isLoading flag through the selector.
selectIsLoading ==
  /\ Idle
  /\ last' = Dispatched("readIsLoading", FALSE, "", <<>>, "", "", NoComments, FALSE)
  /\ state' = state
  /\ prev' = state
  /\ nOps' = nOps + 1
  /\ UNCHANGED <<detail, loads>>

Next ==
  \/ dispatchReturned
  \/ selectModeratedComments
  \/ selectIsLoading
  \/ loadModeratedCommentsStart
  \/ loadModeratedCommentsForArticleComplete
  \/ loadModeratedCommentsForCategoryComplete
  \/ setCommentsModerationForArticlesAction
  \/ setCommentsModerationForCategoriesAction

Spec == Init /\ [][Next]_vars

(***************************************************************************)
(* The store after the moderated comments of every article and category    *)
(* of the model were loaded, each with the same payload, and possibly a    *)
(* further load was started: a state the load actions reach from           *)
(* initialState.  MaxOpsLoaded calls follow.                               *)
(***************************************************************************)
InitLoaded ==
  /\ \E moderatedComments \in Payloads, isLoading \in BOOLEAN :
       state = [isLoading |-> isLoading,
                articles |-> [k \in ScopeKeys |-> moderatedComments],
                categories |-> [k \in ScopeKeys |-> moderatedComments]]
  /\ prev = state
  /\ last = NothingDispatched
  /\ nOps = MaxOps - MaxOpsLoaded
  /\ detail = NoDetail
  /\ loads = NoLoads

SpecLoaded == InitLoaded /\ [][Next]_vars

(***************************************************************************)
(* The CommentDetail component.  moderateComment is an async method: each  *)
(* action below is the code it runs between two awaits.  detail holds the  *)
(* component's props and state, the method's position (pc) and local       *)
(* commentAction, and what the method has called so far.  props.comment is *)
(* the record of the comment store; isAccepted is "true", "false" or       *)
(* "null".                                                                 *)
(***************************************************************************)
\* The actions the component's buttons and shortcuts pass to moderateComment.
IModerationActions == {"approve", "reject", "defer", "highlight"}

Comments ==
  [id : {"c1"}, isAccepted : {"true", "false", "null"},
   isHighlighted : BOOLEAN, isDeferred : BOOLEAN]

\* The optional props of the component: whether each is given.
Props ==
  [onUpdateComment : BOOLEAN, onCommentAction : BOOLEAN,
   loadScores : BOOLEAN, isFromBatch : BOOLEAN]

\* {...comment, ...attributes}: the fields of attributes replace the comment's.
Spread(comment, attributes) ==
  [f \in DOMAIN comment |-> IF f \in DOMAIN attributes THEN attributes[f] ELSE comment[f]]

\* The attribute sets of the comment store, by action.
ATTRIBUTES(action) ==
  CASE action = "approve" -> [isAccepted |-> "true", isDeferred |-> FALSE]
    [] action = "reject" -> [isAccepted |-> "false", isDeferred |-> FALSE, isHighlighted |-> FALSE]
    [] action = "defer" -> [isAccepted |-> "null", isDeferred |-> TRUE]
    [] action = "highlight" -> [isAccepted |-> "true", isDeferred |-> FALSE, isHighlighted |-> TRUE]
    [] action = "reset" -> [isAccepted |-> "null", isDeferred |-> FALSE, isHighlighted |-> FALSE]

getChangeByAction(comment, action) ==
  IF action \in {"reset", "highlight", "approve", "reject", "defer"}
  THEN Spread(comment, ATTRIBUTES(action))
  ELSE comment

\* getActiveButtons whose last statement pushes 'defer' where the code starts a
\* new list (the change C30 must detect).
getActiveButtons_DeferPushed(comment) ==
  LET accepted == IF comment.isAccepted = "true" THEN <<"approve">> ELSE <<>>
      rejected == IF comment.isAccepted = "false" THEN <<"reject">> ELSE accepted
      highlighted == IF comment.isHighlighted THEN Append(rejected, "highlight") ELSE rejected
  IN IF comment.isDeferred THEN Append(highlighted, "defer") ELSE highlighted

getActiveButtons(comment) ==
  LET accepted == IF comment.isAccepted = "true" THEN <<"approve">> ELSE <<>>
      rejected == IF comment.isAccepted = "false" THEN <<"reject">> ELSE accepted
      highlighted == IF comment.isHighlighted THEN Append(rejected, "highlight") ELSE rejected
  IN IF comment.isDeferred THEN <<"defer">> ELSE highlighted

\* List.includes(action).
Includes(list, action) == \E i \in 1..Len(list) : list[i] = action

\* dispatch(updateCommentStateAction[moderationAction](commentIds)): the comment
\* store sets the action's attributes on the record.
updateCommentStateAction(comment, moderationAction) ==
  Spread(comment, ATTRIBUTES(moderationAction))

\* setCommentsModerationStatus: the dispatch of the list action of the context.
\* The outcome is the new store state, or the reducer's throw.
setCommentsModerationStatus(stateRecord, contextProps, commentIds, moderationAction, currentModeration) ==
  IF contextProps.isArticleContext
  THEN LET result == ArticlesForEach(stateRecord.articles, contextProps.articleId,
                                     commentIds, moderationAction, currentModeration)
       IN [threw |-> result.threw,
           state |-> IF result.threw THEN stateRecord
                     ELSE [stateRecord EXCEPT !.articles = result.map]]
  ELSE LET result == CategoriesForEach(stateRecord.categories, contextProps.categoryId,
                                       commentIds, moderationAction, currentModeration)
       IN [threw |-> result.threw,
           state |-> IF result.threw THEN stateRecord
                     ELSE [stateRecord EXCEPT !.categories = result.map]]

\* The container's onCommentAction prop: it hands the action and the ids, with
\* the context and the status the comment had when the action was taken, to
\* setCommentsModerationStatus.
onCommentAction(stateRecord, contextProps, currentModeration, action, idsToDispatch) ==
  setCommentsModerationStatus(stateRecord, contextProps, idsToDispatch, action, currentModeration)

\* The scope key of the context.
ContextId(contextProps) ==
  IF contextProps.isArticleContext THEN contextProps.articleId ELSE contextProps.categoryId

\* The component shows comment c1 of a context whose lists are loaded, opened
\* from the list currentModeration, which holds the comment.
InitModerate ==
  /\ \E moderatedComments \in Payloads, currentModeration \in BucketNames,
        comment \in Comments, props \in Props, isArticleContext \in BOOLEAN :
       /\ \E i \in 1..Len(moderatedComments[currentModeration]) :
            moderatedComments[currentModeration][i] = comment.id
       /\ state = [isLoading |-> FALSE,
                   articles |-> [k \in ScopeKeys |-> moderatedComments],
                   categories |-> [k \in ScopeKeys |-> moderatedComments]]
       /\ detail = [pc |-> "idle",
                    comment |-> comment,
                    commentBefore |-> comment,
                    props |-> props,
                    contextProps |-> [isArticleContext |-> isArticleContext,
                                      articleId |-> "1", categoryId |-> "1"],
                    currentModeration |-> currentModeration,
                    action |-> "",
                    commentAction |-> "",
                    remoteAction |-> "",
                    isConfirmationModalVisible |-> FALSE,
                    confirmationAction |-> "",
                    updateCalled |-> FALSE,
                    remote |-> "none",
                    timer |-> "none",
                    loadScoresCalled |-> FALSE,
                    wentToNextComment |-> FALSE,
                    tagsSubmitted |-> FALSE,
                    tagCalls |-> {}]
  /\ prev = state
  /\ last = NothingDispatched
  /\ nOps = 0
  /\ loads = NoLoads

\* await actionMap[commentAction]([this.props.comment.id]): the remote call is sent.
CallAction(d) ==
  [d EXCEPT !.remote = "pending", !.remoteAction = d.commentAction, !.pc = "awaitAction"]

\* closeToast(); clearReturnSavedCommentRow(); goToNextComment() if isFromBatch.
Finish(d) ==
  [d EXCEPT !.isConfirmationModalVisible = FALSE,
            !.wentToNextComment = d.props.isFromBatch,
            !.pc = "done"]

\* moderateComment(action) up to its first await: the toast is shown; with
\* onUpdateComment the changed record goes to the comment store and the method
\* awaits that call, without it the remote call is sent at once.
ModerateCommentCalled(d, action) ==
  LET activeButtons == getActiveButtons(d.comment)
      shouldResetAction == Includes(activeButtons, action)
      commentAction == IF shouldResetAction THEN "reset" ELSE action
      shown == [d EXCEPT !.isConfirmationModalVisible = TRUE,
                         !.commentBefore = d.comment,
                         !.action = action,
                         !.confirmationAction = commentAction,
                         !.commentAction = commentAction]
  IN IF d.props.onUpdateComment
     THEN [shown EXCEPT !.comment = getChangeByAction(d.comment, commentAction),
                        !.updateCalled = TRUE,
                        !.pc = "awaitUpdateComment"]
     ELSE CallAction(shown)

\* The tag ids the tag dialog can hand to handleAssignTagsSubmit.
TagIds == {"t1"}

\* handleAssignTagsSubmit(commentId, selectedTagIds): one tagCommentSummaryScores
\* call per selected tag, none awaited, then moderateComment('reject'), not
\* awaited either: it runs to its first await before the handler goes on.
handleAssignTagsSubmit ==
  /\ detail.pc = "idle"
  /\ \E selectedTagIds \in SUBSET TagIds :
       detail' = [ModerateCommentCalled(detail, "reject") EXCEPT !.tagsSubmitted = TRUE,
                                                                !.tagCalls = selectedTagIds]
  /\ UNCHANGED <<state, prev, last, nOps, loads>>

moderateComment ==
  /\ detail.pc = "idle"
  /\ \E action \in IModerationActions : detail' = ModerateCommentCalled(detail, action)
  /\ UNCHANGED <<state, prev, last, nOps, loads>>

\* The await of onUpdateComment returns and the remote call is sent, not awaited:
\* the method goes straight on to onCommentAction (the change C20 must detect).
onUpdateCommentReturned_ActionNotAwaited ==
  /\ detail.pc = "awaitUpdateComment"
  /\ LET called == CallAction(detail)
         outcome == onCommentAction(state, called.contextProps, called.currentModeration,
                                    called.commentAction, <<called.comment.id>>)
     IN /\ detail' = [called EXCEPT !.pc = "awaitAll", !.timer = "running"]
        /\ state' = outcome.state
        /\ last' = Dispatched("transition", ~called.contextProps.isArticleContext,
                              ContextId(called.contextProps), <<called.comment.id>>,
                              called.commentAction, called.currentModeration,
                              NoComments, outcome.threw)
  /\ prev' = state
  /\ UNCHANGED <<nOps, loads>>

\* The await of onUpdateComment returns: the remote call is sent.
onUpdateCommentReturned ==
  /\ detail.pc = "awaitUpdateComment"
  /\ detail' = CallAction(detail)
  /\ UNCHANGED <<state, prev, last, nOps, loads>>

\* The remote call succeeded: onCommentAction is called if given, and the 2000 ms
\* timer starts.  A throw of the reducer inside onCommentAction rejects
\* moderateComment.
ActionResolved(d, stateRecord) ==
  LET resolved == [d EXCEPT !.remote = "resolved"]
  IN IF d.props.onCommentAction
     THEN LET outcome == onCommentAction(stateRecord, d.contextProps, d.currentModeration,
                                         d.commentAction, <<d.comment.id>>)
          IN [dispatched |-> TRUE,
              threw |-> outcome.threw,
              state |-> outcome.state,
              detail |-> IF outcome.threw
                         THEN [resolved EXCEPT !.pc = "rejected",
                                               !.comment = updateCommentStateAction(@, d.commentAction)]
                         ELSE [resolved EXCEPT !.pc = "awaitAll", !.timer = "running",
                                               !.comment = updateCommentStateAction(@, d.commentAction)]]
     ELSE [dispatched |-> FALSE,
           threw |-> FALSE,
           state |-> stateRecord,
           detail |-> [resolved EXCEPT !.pc = "awaitAll", !.timer = "running"]]

\* What the store records of the list action a call dispatches.
TransitionDispatched(d, threw) ==
  Dispatched("transition", ~d.contextProps.isArticleContext, ContextId(d.contextProps),
             <<d.comment.id>>, d.commentAction, d.currentModeration, NoComments, threw)

actionResolved ==
  /\ detail.pc = "awaitAction"
  /\ LET resolved == ActionResolved(detail, state)
     IN /\ detail' = resolved.detail
        /\ state' = resolved.state
        /\ IF resolved.dispatched
           THEN /\ prev' = state
                /\ last' = TransitionDispatched(detail, resolved.threw)
           ELSE UNCHANGED <<prev, last>>
  /\ UNCHANGED <<nOps, loads>>

\* A failed remote call after which the transition is dispatched all the same
\* before moderateComment rejects (the change C21's amended statement must detect).
actionRejected_TransitionApplied ==
  /\ detail.pc = "awaitAction"
  /\ LET outcome == onCommentAction(state, detail.contextProps, detail.currentModeration,
                                    detail.commentAction, <<detail.comment.id>>)
     IN /\ detail' = [detail EXCEPT !.remote = "rejected", !.pc = "rejected"]
        /\ state' = outcome.state
        /\ last' = Dispatched("transition", ~detail.contextProps.isArticleContext,
                              ContextId(detail.contextProps), <<detail.comment.id>>,
                              detail.commentAction, detail.currentModeration,
                              NoComments, outcome.threw)
  /\ prev' = state
  /\ UNCHANGED <<nOps, loads>>

\* A failed remote call after which the record of the comment store is put back
\* (the change C22 must detect).
actionRejected_RollsBack ==
  /\ detail.pc = "awaitAction"
  /\ detail' = [detail EXCEPT !.remote = "rejected", !.pc = "rejected",
                              !.comment = detail.commentBefore]
  /\ UNCHANGED <<state, prev, last, nOps, loads>>

\* The remote call failed: the await throws and moderateComment rejects.
actionRejected ==
  /\ detail.pc = "awaitAction"
  /\ detail' = [detail EXCEPT !.remote = "rejected", !.pc = "rejected"]
  /\ UNCHANGED <<state, prev, last, nOps, loads>>

\* The timer fires and Promise.all resolves: loadScores is called and awaited if
\* given, otherwise the method finishes.
TimeoutElapsed(d) ==
  LET elapsed == [d EXCEPT !.timer = "elapsed"]
  IN IF d.props.loadScores
     THEN [elapsed EXCEPT !.loadScoresCalled = TRUE, !.pc = "awaitLoadScores"]
     ELSE Finish(elapsed)

timeoutElapsed ==
  /\ detail.pc = "awaitAll"
  /\ detail' = TimeoutElapsed(detail)
  /\ UNCHANGED <<state, prev, last, nOps, loads>>

\* The await of loadScores returns and the method finishes.
loadScoresReturned ==
  /\ detail.pc = "awaitLoadScores"
  /\ detail' = Finish(detail)
  /\ UNCHANGED <<state, prev, last, nOps, loads>>

NextModerate ==
  \/ moderateComment
  \/ handleAssignTagsSubmit
  \/ onUpdateCommentReturned
  \/ actionResolved
  \/ actionRejected
  \/ timeoutElapsed
  \/ loadScoresReturned

SpecModerate == InitModerate /\ [][NextModerate]_vars

(***************************************************************************)
(* Two calls of moderateComment in progress at once, one on comment c1 and *)
(* one on comment c2 of the same context.  detail.calls[c] is the call on  *)
(* comment c, a record of the shape SpecModerate keeps in detail; every    *)
(* action below runs the code of one call between two awaits, so the calls *)
(* interleave at their awaits and nowhere else.  detail.initial is the     *)
(* store before either call, detail.resolved the comment ids in the order  *)
(* their remote calls resolved and detail.applied the ids in the order     *)
(* their list transitions were dispatched.                                 *)
(***************************************************************************)
\* The comment record the comment store holds for a comment of the given list.
CommentOf(commentId, moderation) ==
  [id |-> commentId,
   isAccepted |-> CASE moderation \in {"approved", "highlighted"} -> "true"
                    [] moderation = "rejected" -> "false"
                    [] OTHER -> "null",
   isHighlighted |-> (moderation = "highlighted"),
   isDeferred |-> (moderation = "deferred")]

\* The props of this specification: onCommentAction is given, the comment is
\* not one of a batch.
OverlapProps == {p \in Props : p.onCommentAction /\ ~p.isFromBatch}

\* Each comment is in one list of the context (a highlighted one in approved
\* as well), and each component was opened from the list holding its comment.
InitOverlap ==
  /\ \E disposition \in [Ids -> BucketNames], props \in OverlapProps, isArticleContext \in BOOLEAN :
       /\ state = [isLoading |-> FALSE,
                   articles |-> [k \in ScopeKeys |-> ModeratedComments(disposition)],
                   categories |-> [k \in ScopeKeys |-> ModeratedComments(disposition)]]
       /\ detail = [calls |-> [c \in Ids |->
                                [pc |-> "idle",
                                 comment |-> CommentOf(c, disposition[c]),
                                 commentBefore |-> CommentOf(c, disposition[c]),
                                 props |-> props,
                                 contextProps |-> [isArticleContext |-> isArticleContext,
                                                   articleId |-> "1", categoryId |-> "1"],
                                 currentModeration |-> disposition[c],
                                 action |-> "",
                                 commentAction |-> "",
                                 remoteAction |-> "",
                                 isConfirmationModalVisible |-> FALSE,
                                 confirmationAction |-> "",
                                 updateCalled |-> FALSE,
                                 remote |-> "none",
                                 timer |-> "none",
                                 loadScoresCalled |-> FALSE,
                                 wentToNextComment |-> FALSE,
                                 tagsSubmitted |-> FALSE,
                                 tagCalls |-> {}]],
                    initial |-> state,
                    resolved |-> <<>>,
                    applied |-> <<>>]
  /\ prev = state
  /\ last = NothingDispatched
  /\ nOps = 0
  /\ loads = NoLoads

\* moderateComment(action) is called on comment c, up to its first await.
callModerateComment(c) ==
  /\ detail.calls[c].pc = "idle"
  /\ \E action \in IModerationActions :
       detail' = [detail EXCEPT !.calls[c] = ModerateCommentCalled(@, action)]
  /\ UNCHANGED <<state, prev, last, nOps, loads>>

\* The comment store call of the call on c returned: its remote call is sent.
callUpdateCommentReturned(c) ==
  /\ detail.calls[c].pc = "awaitUpdateComment"
  /\ detail' = [detail EXCEPT !.calls[c] = CallAction(@)]
  /\ UNCHANGED <<state, prev, last, nOps, loads>>

\* The reducer call that ends a dispatched list transition replaces the list of
\* the added comment alone.
callActionResolved_ReplacesList(c) ==
  /\ detail.calls[c].pc = "awaitAction"
  /\ LET resolved == ActionResolved(detail.calls[c], state)
         scope == ContextId(detail.calls[c].contextProps)
         plural == ACTION_PLURAL(detail.calls[c].commentAction)
         replaced(map) ==
           IF scope \in DOMAIN map /\ plural \in BucketNames
           THEN [map EXCEPT ![scope][plural] = <<c>>]
           ELSE map
     IN /\ detail' = [detail EXCEPT !.calls[c] = resolved.detail,
                                    !.resolved = Append(@, c),
                                    !.applied = IF resolved.dispatched THEN Append(@, c) ELSE @]
        /\ state' = [resolved.state EXCEPT !.articles = replaced(@), !.categories = replaced(@)]
        /\ prev' = state
        /\ last' = TransitionDispatched(detail.calls[c], resolved.threw)
  /\ UNCHANGED <<nOps, loads>>

\* The remote call of the call on c resolved: the code up to the next await
\* runs in one piece, the list transition it dispatches included.
callActionResolved(c) ==
  /\ detail.calls[c].pc = "awaitAction"
  /\ LET resolved == ActionResolved(detail.calls[c], state)
     IN /\ detail' = [detail EXCEPT !.calls[c] = resolved.detail,
                                    !.resolved = Append(@, c),
                                    !.applied = IF resolved.dispatched THEN Append(@, c) ELSE @]
        /\ state' = resolved.state
        /\ IF resolved.dispatched
           THEN /\ prev' = state
                /\ last' = TransitionDispatched(detail.calls[c], resolved.threw)
           ELSE UNCHANGED <<prev, last>>
  /\ UNCHANGED <<nOps, loads>>

\* The remote call of the call on c failed: the method rejects there.
callActionRejected(c) ==
  /\ detail.calls[c].pc = "awaitAction"
  /\ detail' = [detail EXCEPT !.calls[c] = [@ EXCEPT !.remote = "rejected", !.pc = "rejected"]]
  /\ UNCHANGED <<state, prev, last, nOps, loads>>

callTimeoutElapsed(c) ==
  /\ detail.calls[c].pc = "awaitAll"
  /\ detail' = [detail EXCEPT !.calls[c] = TimeoutElapsed(@)]
  /\ UNCHANGED <<state, prev, last, nOps, loads>>

callLoadScoresReturned(c) ==
  /\ detail.calls[c].pc = "awaitLoadScores"
  /\ detail' = [detail EXCEPT !.calls[c] = Finish(@)]
  /\ UNCHANGED <<state, prev, last, nOps, loads>>

NextOverlap ==
  \E c \in Ids :
    \/ callModerateComment(c)
    \/ callUpdateCommentReturned(c)
    \/ callActionResolved(c)
    \/ callActionRejected(c)
    \/ callTimeoutElapsed(c)
    \/ callLoadScoresReturned(c)

SpecOverlap == InitOverlap /\ [][NextOverlap]_vars

(***************************************************************************)
(* loadModeratedCommentsForArticle and loadModeratedCommentsForCategory:   *)
(* async functions, each action below being the code one call runs between *)
(* two awaits.  loads[l] is call l: its position, its scope, the order in  *)
(* which it was started and what the data service returned to it.  Nothing *)
(* orders the calls: any of them may be started, and any fetch may return  *)
(* or fail, while others are in progress.                                  *)
(***************************************************************************)
LoadIds == 1..MaxLoads

\* What the data service returns in this specification: c1 alone, in approved,
\* in rejected, or in no list.
FetchedComments ==
  {ModeratedComments([i \in Ids |-> IF i = "c1" THEN b ELSE "none"]) :
     b \in {"approved", "rejected", "none"}}

NotCalled ==
  [pc |-> "idle", isCategory |-> FALSE, scope |-> "", started |-> 0,
   moderatedComments |-> NoComments]

InitLoads ==
  /\ state \in {initialState,
                [isLoading |-> FALSE,
                 articles |-> [k \in ScopeKeys |-> NoComments],
                 categories |-> [k \in ScopeKeys |-> NoComments]]}
  /\ prev = state
  /\ last = NothingDispatched
  /\ nOps = 0
  /\ detail = NoDetail
  /\ loads = [l \in LoadIds |-> NotCalled]

\* The number of calls started so far.
Started == Cardinality({l \in LoadIds : loads[l].pc # "idle"})

\* A call's first statement: await dispatch(loadModeratedCommentsStart()).
StartLoad(l, isCategory, scope) ==
  /\ loads[l].pc = "idle"
  /\ \A m \in LoadIds : m < l => loads[m].pc # "idle"
  /\ state' = [state EXCEPT !.isLoading = TRUE]
  /\ prev' = state
  /\ last' = Dispatched("startLoad", isCategory, scope, <<>>, "", "", NoComments, FALSE)
  /\ loads' = [loads EXCEPT ![l] = [pc |-> "started", isCategory |-> isCategory,
                                    scope |-> scope, started |-> Started + 1,
                                    moderatedComments |-> NoComments]]
  /\ UNCHANGED <<nOps, detail>>

loadModeratedCommentsForArticle ==
  \E l \in LoadIds, articleId \in ScopeKeys : StartLoad(l, FALSE, articleId)

loadModeratedCommentsForCategory ==
  \E l \in LoadIds, category \in ScopeKeys : StartLoad(l, TRUE, category)

\* The await of the dispatch returns: fetchModeratedCommentIdsForArticle or
\* ...ForCategory is called and awaited.
fetchModeratedCommentIds ==
  /\ \E l \in LoadIds :
       /\ loads[l].pc = "started"
       /\ loads' = [loads EXCEPT ![l].pc = "fetching"]
  /\ UNCHANGED <<state, prev, last, nOps, detail>>

\* The fetch of a call returns its data: the call dispatches
\* loadModeratedCommentsForArticleComplete or ...ForCategoryComplete with it.
fetchResolved ==
  /\ \E l \in LoadIds, moderatedComments \in FetchedComments :
       /\ loads[l].pc = "fetching"
       /\ state' = IF loads[l].isCategory
                   THEN [state EXCEPT !.isLoading = FALSE,
                                      !.categories = MapSet(@, loads[l].scope, moderatedComments)]
                   ELSE [state EXCEPT !.isLoading = FALSE,
                                      !.articles = MapSet(@, loads[l].scope, moderatedComments)]
       /\ last' = Dispatched("load", loads[l].isCategory, loads[l].scope, <<>>, "", "",
                             moderatedComments, FALSE)
       /\ loads' = [loads EXCEPT ![l].pc = "done", ![l].moderatedComments = moderatedComments]
  /\ prev' = state
  /\ UNCHANGED <<nOps, detail>>

\* The fetch of a call fails: the await throws and the call rejects, having
\* dispatched nothing more.
fetchRejected ==
  /\ \E l \in LoadIds :
       /\ loads[l].pc = "fetching"
       /\ loads' = [loads EXCEPT ![l].pc = "failed"]
  /\ UNCHANGED <<state, prev, last, nOps, detail>>

NextLoads ==
  \/ loadModeratedCommentsForArticle
  \/ loadModeratedCommentsForCategory
  \/ fetchModeratedCommentIds
  \/ fetchResolved
  \/ fetchRejected

SpecLoads == InitLoads /\ [][NextLoads]_vars

(***************************************************************************)
(* Vocabulary of the properties.                                           *)
(***************************************************************************)
TerminalBuckets == {"approved", "rejected", "deferred", "highlighted"}

Contains(list, commentId) == \E i \in 1..Len(list) : list[i] = commentId

Count(list, commentId) == Cardinality({i \in 1..Len(list) : list[i] = commentId})

IsPrefix(a, b) == Len(a) <= Len(b) /\ SubSeq(b, 1, Len(a)) = a

EndsWith(list, tail) ==
  Len(tail) <= Len(list) /\ SubSeq(list, Len(list) - Len(tail) + 1, Len(list)) = tail

\* The map (articles or categories) the last dispatched action addressed, before and after.
Before == IF last.isCategory THEN prev.categories ELSE prev.articles

After == IF last.isCategory THEN state.categories ELSE state.articles

\* The map the last action did not address, before and after.
OtherBefore == IF last.isCategory THEN prev.articles ELSE prev.categories

OtherAfter == IF last.isCategory THEN state.articles ELSE state.categories

\* The last action was a transition of the single comment id, on a loaded scope.
TransitionOfOne(commentId, moderationAction, currentModeration) ==
  /\ last.op = "transition"
  /\ last.commentIds = <<commentId>>
  /\ last.moderationAction = moderationAction
  /\ last.currentModeration = currentModeration
  /\ last.scope \in DOMAIN Before

\* Every list of every scope of the addressed map but the named one is as it was,
\* and so are the other map and isLoading.
OnlyBucketChanged(bucket) ==
  /\ state.isLoading = prev.isLoading
  /\ OtherAfter = OtherBefore
  /\ DOMAIN After = DOMAIN Before
  /\ \A k \in DOMAIN Before : \A b \in BucketNames :
       (k # last.scope \/ b # bucket) => After[k][b] = Before[k][b]

\* The list with the first occurrence of the id taken out.
WithoutFirst(list, commentId) ==
  LET k == CHOOSE i \in 1..Len(list) :
             list[i] = commentId /\ \A j \in 1..(i - 1) : list[j] # commentId
  IN [i \in 1..(Len(list) - 1) |-> IF i < k THEN list[i] ELSE list[i + 1]]

\* The handler of the addressed map, as a function of the map and the payload.
Handler(map, isCategory, scope, commentIds, moderationAction, currentModeration) ==
  IF isCategory
  THEN CategoriesForEach(map, scope, commentIds, moderationAction, currentModeration)
  ELSE ArticlesForEach(map, scope, commentIds, moderationAction, currentModeration)

RECURSIVE IsSubsequence(_, _)
IsSubsequence(a, b) ==
  IF a = <<>> THEN TRUE
  ELSE IF b = <<>> THEN FALSE
  ELSE IF Head(a) = Head(b) THEN IsSubsequence(Tail(a), Tail(b))
  ELSE IsSubsequence(a, Tail(b))

\* The named list of every scope of both maps but the addressed scope is as it was.
BucketUnchangedElsewhere(bucket) ==
  /\ DOMAIN state.articles = DOMAIN prev.articles
  /\ DOMAIN state.categories = DOMAIN prev.categories
  /\ \A k \in DOMAIN OtherBefore : OtherAfter[k][bucket] = OtherBefore[k][bucket]
  /\ \A k \in DOMAIN Before \ {last.scope} : After[k][bucket] = Before[k][bucket]

Reverse(list) == [i \in 1..Len(list) |-> list[Len(list) + 1 - i]]

(***************************************************************************)
(* C1.  In every reachable state, for every scope and every comment id,    *)
(* the id is in at most one of the lists approved, rejected, deferred,     *)
(* highlighted, except that it may be in both highlighted and approved.    *)
(* The reducer breaks this: a transition with action 'highlight' removes   *)
(* nothing, so a rejected comment that is highlighted stays in rejected.   *)
(***************************************************************************)
C1_AtMostOneTerminalBucket ==
  \A map \in {state.articles, state.categories} : \A k \in DOMAIN map : \A i \in Ids :
    LET held == {b \in TerminalBuckets : Contains(map[k][b], i)}
    IN Cardinality(held) <= 1 \/ held = {"highlighted", "approved"}

\* The failing input of C1: a rejected comment of a category, highlighted from
\* the rejected list, is afterwards in rejected, highlighted and approved.
C1_RejectedThenHighlighted ==
  /\ last.isCategory
  /\ \E i \in Ids :
       /\ TransitionOfOne(i, "highlight", "rejected")
       /\ Contains(Before[last.scope]["rejected"], i)
       /\ Contains(After[last.scope]["rejected"], i)
       /\ Contains(After[last.scope]["highlighted"], i)
       /\ Contains(After[last.scope]["approved"], i)

(***************************************************************************)
(* C2.  In every reachable state, every id in a scope's highlighted list   *)
(* is also in that scope's approved list.  The reducer breaks this: a      *)
(* reject from the approved list leaves the comment in highlighted.        *)
(***************************************************************************)
C2_HighlightedImpliesApproved ==
  \A map \in {state.articles, state.categories} : \A k \in DOMAIN map : \A i \in Ids :
    Contains(map[k]["highlighted"], i) => Contains(map[k]["approved"], i)

\* The failing input of C2: a highlighted comment rejected from the approved list.
C2_HighlightedThenRejected ==
  \E i \in Ids :
    /\ TransitionOfOne(i, "reject", "approved")
    /\ Contains(Before[last.scope]["approved"], i)
    /\ Contains(Before[last.scope]["highlighted"], i)
    /\ Contains(After[last.scope]["highlighted"], i)
    /\ ~Contains(After[last.scope]["approved"], i)

(***************************************************************************)
(* C3.  No list of any scope ever holds the same comment id twice.  The    *)
(* categories handler breaks this: highlighting an approved comment        *)
(* appends it to approved a second time.                                   *)
(***************************************************************************)
C3_NoDuplicates ==
  \A map \in {state.articles, state.categories} : \A k \in DOMAIN map :
    \A b \in BucketNames : \A i \in Ids : Count(map[k][b], i) <= 1

\* The failing input of C3: an approved comment of a category, highlighted.
C3_ApprovedThenHighlighted ==
  /\ last.isCategory
  /\ \E i \in Ids :
       /\ TransitionOfOne(i, "highlight", "approved")
       /\ Count(Before[last.scope]["approved"], i) = 1
       /\ Count(After[last.scope]["approved"], i) = 2

(***************************************************************************)
(* C4.  For every loaded scope (article or category) and every id in its   *)
(* rejected list, after transition(S, [id], 'approve', 'rejected') the id  *)
(* is not in rejected and is in approved.  The articles handler drops the  *)
(* list its push returns, so the id reaches no list of an article.         *)
(***************************************************************************)
C4_ApproveRejected ==
  \A i \in Ids :
    (TransitionOfOne(i, "approve", "rejected") /\ Contains(Before[last.scope]["rejected"], i))
      => /\ ~last.threw
         /\ ~Contains(After[last.scope]["rejected"], i)
         /\ Contains(After[last.scope]["approved"], i)

\* The scenario of C4: article "1" loaded with rejected = [c1] and nothing else, then
\* c1 approved from rejected; rejected is empty and approved is empty too.
C4_ArticleScenario ==
  /\ ~last.isCategory
  /\ TransitionOfOne("c1", "approve", "rejected")
  /\ Before[last.scope] = [NoComments EXCEPT !["rejected"] = <<"c1">>]
  /\ ~last.threw
  /\ After[last.scope] = NoComments

(***************************************************************************)
(* C5.  For every loaded scope (article or category) and every id in its   *)
(* approved list, transition(S, [id], 'highlight', 'approved') completes   *)
(* and afterwards the id is in highlighted and in approved.  For an        *)
(* article the call throws: the second push addresses the key path         *)
(* ['articles', articleId, 'approved'], which names nothing.               *)
(***************************************************************************)
C5_HighlightApproved ==
  \A i \in Ids :
    (TransitionOfOne(i, "highlight", "approved") /\ Contains(Before[last.scope]["approved"], i))
      => /\ ~last.threw
         /\ Contains(After[last.scope]["highlighted"], i)
         /\ Contains(After[last.scope]["approved"], i)

\* The failing input of C5: an approved comment of an article, highlighted: the
\* reducer throws and the store is as it was, the comment not in highlighted.
C5_ArticleHighlightThrows ==
  /\ ~last.isCategory
  /\ \E i \in Ids :
       /\ TransitionOfOne(i, "highlight", "approved")
       /\ Contains(Before[last.scope]["approved"], i)
       /\ last.threw
       /\ state = prev
       /\ ~Contains(After[last.scope]["highlighted"], i)

(***************************************************************************)
(* C6.  As the spec has it: highlighting an already highlighted id,        *)
(* transition(S, [id], 'highlight', 'highlighted') with the id in the      *)
(* highlighted list, leaves the whole store unchanged.                     *)
(***************************************************************************)
C6_HighlightHighlightedIsNoOp ==
  \A i \in Ids :
    (TransitionOfOne(i, "highlight", "highlighted")
       /\ Contains(Before[last.scope]["highlighted"], i))
      => state = prev

(***************************************************************************)
(* C6, amended.  transition(S, [id], 'highlight', 'highlighted') with the  *)
(* id in S's highlighted list does not throw, takes the first occurrence   *)
(* of the id out of S's highlighted list, and leaves every other list of   *)
(* every scope, and isLoading, unchanged: it is the un-highlight toggle.   *)
(***************************************************************************)
C6_HighlightHighlightedRemoves ==
  \A i \in Ids :
    (TransitionOfOne(i, "highlight", "highlighted")
       /\ Contains(Before[last.scope]["highlighted"], i))
      => /\ ~last.threw
         /\ After[last.scope]["highlighted"] = WithoutFirst(Before[last.scope]["highlighted"], i)
         /\ OnlyBucketChanged("highlighted")

\* A highlighted comment was highlighted again, in an article and in a category.
C6_Witness ==
  \E i \in Ids :
    /\ TransitionOfOne(i, "highlight", "highlighted")
    /\ Contains(Before[last.scope]["highlighted"], i)
    /\ Contains(Before[last.scope]["approved"], i)
    /\ ~Contains(After[last.scope]["highlighted"], i)

(***************************************************************************)
(* C7.  For every scope, id and terminal previousStatus (approved,         *)
(* rejected, deferred, highlighted) whose list holds the id,               *)
(* transition(S, [id], 'reset', previousStatus) removes the id from that   *)
(* list and adds it to none of the seven lists.  With previousStatus       *)
(* 'highlighted' the reducer removes nothing: the removal step runs for    *)
(* 'highlighted' only when the action is 'highlight'.                      *)
(***************************************************************************)
C7_ResetRemoves ==
  \A i \in Ids : \A p \in TerminalBuckets :
    (TransitionOfOne(i, "reset", p) /\ Contains(Before[last.scope][p], i))
      => /\ ~last.threw
         /\ Count(After[last.scope][p], i) < Count(Before[last.scope][p], i)
         /\ \A b \in BucketNames :
              Count(After[last.scope][b], i) <= Count(Before[last.scope][b], i)

\* The failing input of C7: a highlighted comment reset from the highlighted list
\* is still in it.
C7_ResetHighlightedStays ==
  \E i \in Ids :
    /\ TransitionOfOne(i, "reset", "highlighted")
    /\ Contains(Before[last.scope]["highlighted"], i)
    /\ ~last.threw
    /\ state = prev

(***************************************************************************)
(* C8.  In both article and category scopes, a transition with action      *)
(* 'reject' appends each id to the rejected list and one with action       *)
(* 'defer' appends each id to the deferred list.  The articles handler     *)
(* drops the list each push returns, so an article's rejected and          *)
(* deferred lists never grow.                                              *)
(***************************************************************************)
C8_RejectAndDeferAppend ==
  \A a \in {"reject", "defer"} :
    (last.op = "transition" /\ last.moderationAction = a /\ ~last.threw
       /\ last.scope \in DOMAIN Before)
      => EndsWith(After[last.scope][ACTION_PLURAL(a)], last.commentIds)

\* The failing input of C8: a comment of an article deferred from the approved
\* list: it leaves approved and the deferred list stays as it was.
C8_ArticleDeferLost ==
  /\ ~last.isCategory
  /\ \E i \in Ids :
       /\ TransitionOfOne(i, "defer", "approved")
       /\ Contains(Before[last.scope]["approved"], i)
       /\ ~last.threw
       /\ ~Contains(After[last.scope]["approved"], i)
       /\ After[last.scope]["deferred"] = Before[last.scope]["deferred"]
       /\ ~Contains(After[last.scope]["deferred"], i)

(***************************************************************************)
(* C9.  If previousStatus names a list of the scope in which the id is     *)
(* absent, the removal step is a no-op: the call does not throw in that    *)
(* step and the list keeps everything it held (the insertion step may      *)
(* append to it).  The reducer deletes at index findIndex(...) = -1, which *)
(* Immutable takes as the last element of the list.                        *)
(***************************************************************************)
C9_StaleRemovalIsNoOp ==
  \A i \in Ids : \A a \in ModerationActions : \A p \in BucketNames :
    (TransitionOfOne(i, a, p) /\ ~Contains(Before[last.scope][p], i) /\ ~last.threw)
      => IsPrefix(Before[last.scope][p], After[last.scope][p])

\* The failing input of C9: category list rejected = [c2]; c1 (in no list) approved
\* with previousStatus 'rejected': c2 is gone from rejected.
C9_StaleRemovalDropsLast ==
  /\ last.isCategory
  /\ TransitionOfOne("c1", "approve", "rejected")
  /\ Before[last.scope]["rejected"] = <<"c2">>
  /\ ~last.threw
  /\ After[last.scope]["rejected"] = <<>>

(***************************************************************************)
(* C10.  When previousStatus is 'batched' or 'automated' the transition    *)
(* runs no removal step (that list is unchanged) for every action, and     *)
(* with action 'highlight' on a loaded scope (article or category) it      *)
(* appends the id to both highlighted and approved and removes it from     *)
(* nothing.  For an article the highlight throws (the bug of C5), so       *)
(* nothing is appended.                                                    *)
(***************************************************************************)
C10_OverlayStatusNoRemoval ==
  \A p \in {"batched", "automated"} :
    /\ (last.op = "transition" /\ last.currentModeration = p /\ last.scope \in DOMAIN Before)
         => After[last.scope][p] = Before[last.scope][p]
    /\ \A i \in Ids :
         TransitionOfOne(i, "highlight", p)
           => /\ ~last.threw
              /\ After[last.scope]["highlighted"] = Append(Before[last.scope]["highlighted"], i)
              /\ After[last.scope]["approved"] = Append(Before[last.scope]["approved"], i)
              /\ \A b \in BucketNames \ {"highlighted", "approved"} :
                   After[last.scope][b] = Before[last.scope][b]

\* The scenario of C10: c2, in the batched list of article "1", highlighted with
\* previousStatus 'batched': the reducer throws and c2 is in neither list.
C10_ArticleScenario ==
  /\ ~last.isCategory
  /\ last.scope = "1"
  /\ TransitionOfOne("c2", "highlight", "batched")
  /\ Contains(Before[last.scope]["batched"], "c2")
  /\ last.threw
  /\ After[last.scope]["highlighted"] = <<>>
  /\ After[last.scope]["approved"] = <<>>

(***************************************************************************)
(* C11.  The result of a transition does not depend on the iteration order *)
(* of commentIds: applying the handler to the same store with the ids in   *)
(* the other order throws exactly when the call did and gives the same     *)
(* store.  The reducer breaks this: the ids are pushed in iteration order, *)
(* and a removal of an absent id deletes the last element of the list (the *)
(* bug of C9), which is whatever the previous iteration left there.        *)
(***************************************************************************)
C11_OrderIndependent ==
  last.op = "transition"
    => LET other == Handler(Before, last.isCategory, last.scope, Reverse(last.commentIds),
                            last.moderationAction, last.currentModeration)
       IN /\ other.threw = last.threw
          /\ ~last.threw => other.map = After

\* The failing input of C11: category list approved = [c2]; [c1, c2] approved from
\* the approved list leaves approved = [c2], and [c2, c1] leaves approved = [c1].
C11_MembershipDependsOnOrder ==
  /\ last.isCategory
  /\ last.op = "transition"
  /\ last.commentIds = <<"c1", "c2">>
  /\ last.moderationAction = "approve"
  /\ last.currentModeration = "approved"
  /\ last.scope \in DOMAIN Before
  /\ Before[last.scope]["approved"] = <<"c2">>
  /\ After[last.scope]["approved"] = <<"c2">>
  /\ Handler(Before, TRUE, last.scope, <<"c2", "c1">>, "approve",
             "approved").map[last.scope]["approved"] = <<"c1">>

(***************************************************************************)
(* C12.  As the spec has it: no transition, for any action and any         *)
(* previousStatus (including 'flagged'), changes the flagged list of any   *)
(* scope.                                                                  *)
(***************************************************************************)
C12_TransitionKeepsFlagged ==
  last.op = "transition"
    => /\ BucketUnchangedElsewhere("flagged")
       /\ last.scope \in DOMAIN Before
            => After[last.scope]["flagged"] = Before[last.scope]["flagged"]

(***************************************************************************)
(* C12, amended.  The flagged list of a scope is replaced by completeLoad  *)
(* and is never appended to by a transition.  A transition changes it only *)
(* when it addresses the scope with previousStatus 'flagged' and an action *)
(* other than 'highlight': the removal step then takes the ids of          *)
(* commentIds out of it (the list after is a subsequence of the list       *)
(* before and holds none of them).  Every other transition, startLoad and  *)
(* the selectors leave the flagged list of every scope as it was.          *)
(***************************************************************************)
C12_FlaggedOnlyRemovedFrom ==
  /\ last.op \in {"transition", "startLoad", "read", "readIsLoading"}
       => BucketUnchangedElsewhere("flagged")
  /\ (last.op \in {"transition", "startLoad", "read", "readIsLoading"}
        /\ last.scope \in DOMAIN Before)
       => IF /\ last.op = "transition"
             /\ last.currentModeration = "flagged"
             /\ last.moderationAction # "highlight"
             /\ ~last.threw
          THEN /\ IsSubsequence(After[last.scope]["flagged"], Before[last.scope]["flagged"])
               /\ \A n \in 1..Len(last.commentIds) :
                    ~Contains(After[last.scope]["flagged"], last.commentIds[n])
          ELSE After[last.scope]["flagged"] = Before[last.scope]["flagged"]

\* A flagged comment was approved from the flagged list and left it, the flagged
\* lists of the other scopes staying as they were.
C12_Witness ==
  /\ last.op = "transition"
  /\ last.currentModeration = "flagged"
  /\ last.moderationAction = "approve"
  /\ ~last.threw
  /\ \E i \in Ids :
       /\ last.commentIds = <<i>>
       /\ Contains(Before[last.scope]["flagged"], i)
       /\ ~Contains(After[last.scope]["flagged"], i)
       /\ \A k \in DOMAIN OtherBefore : Contains(OtherAfter[k]["flagged"], i)

(***************************************************************************)
(* C13.  Every per-scope state that is stored or that the selector returns *)
(* has exactly the seven list names approved, highlighted, rejected,       *)
(* deferred, flagged, batched, automated: no sequence of loads and         *)
(* transitions, a transition with action 'tag' or an unknown action        *)
(* included, makes a list of another name (such as 'tagged').              *)
(***************************************************************************)
C13_ExactlySevenBuckets ==
  /\ \A k \in DOMAIN state.articles : DOMAIN state.articles[k] = BucketNames
  /\ \A k \in DOMAIN state.categories : DOMAIN state.categories[k] = BucketNames
  /\ \A isArticle \in BOOLEAN, k \in ScopeKeys :
       DOMAIN getModeratedComments(state, isArticle, k) = BucketNames
  /\ last.op = "read" => DOMAIN last.moderatedComments = BucketNames

\* A 'tag' or unknown action was dispatched for a loaded category: the default
\* case of the switch ran on a scope that has no list of the action's plural.
C13_Witness ==
  /\ last.op = "transition"
  /\ last.isCategory
  /\ last.moderationAction \in {"tag", "flag"}
  /\ ~shouldRemoveFromList(last.currentModeration, last.moderationAction)
  /\ last.scope \in DOMAIN Before
  /\ DOMAIN After[last.scope] = BucketNames

(***************************************************************************)
(* C14.  For every scope that was not loaded, article or category, the     *)
(* selector returns a state with all seven lists present and empty; for    *)
(* every store state and every scope the selector never returns undefined. *)
(***************************************************************************)
C14_SelectorNeverUndefined ==
  /\ \A isArticle \in BOOLEAN, k \in ScopeKeys :
       LET result == getModeratedComments(state, isArticle, k)
           loaded == DOMAIN (IF isArticle THEN state.articles ELSE state.categories)
       IN /\ result # Undefined
          /\ k \notin loaded => result = NoComments
          /\ k \in loaded => result = (IF isArticle THEN state.articles[k] ELSE state.categories[k])
  /\ last.op = "read"
       => /\ last.moderatedComments # Undefined
          /\ last.scope \notin DOMAIN Before
               => \A b \in BucketNames : last.moderatedComments[b] = <<>>

\* The selector was read for a category that was not loaded while the article of
\* the same id was loaded with comments, and returned seven empty lists.
C14_Witness ==
  /\ last.op = "read"
  /\ last.isCategory
  /\ last.scope \notin DOMAIN prev.categories
  /\ last.scope \in DOMAIN prev.articles
  /\ prev.articles[last.scope] # NoComments
  /\ last.moderatedComments = NoComments

C16_ScopesNeverInteract ==
  /\ last.op \in {"load", "transition"}
       => /\ OtherAfter = OtherBefore
          /\ DOMAIN After = DOMAIN Before \cup (IF last.op = "load" THEN {last.scope} ELSE {})
          /\ \A k \in DOMAIN Before \ {last.scope} : After[k] = Before[k]
  /\ last.op = "transition" => state.isLoading = prev.isLoading

\* A transition changed the lists of a category while the article of the same id
\* and the other category held comments, and a load was in progress.
C16_Witness ==
  /\ last.op = "transition"
  /\ last.isCategory
  /\ ~last.threw
  /\ After[last.scope] # Before[last.scope]
  /\ last.scope \in DOMAIN OtherBefore
  /\ OtherBefore[last.scope] # NoComments
  /\ \E k \in DOMAIN Before \ {last.scope} : Before[k] # NoComments
  /\ prev.isLoading

(***************************************************************************)
(* C17.  isLoading is true in the initial store and in every state reached *)
(* before the first completed load (of an article or of a category); it is *)
(* false after a completed load, and only startLoad makes it true again.   *)
(***************************************************************************)
C17_IsLoadingLifecycle ==
  /\ nOps = 0 => getIsLoading(state)
  /\ (state.articles = NoMap /\ state.categories = NoMap) => getIsLoading(state)
  /\ (last.op \notin {"load", "none"} /\ getIsLoading(prev)) => getIsLoading(state)
  /\ last.op = "load" => ~getIsLoading(state)
  /\ last.op = "startLoad" => getIsLoading(state)
  /\ (~getIsLoading(prev) /\ getIsLoading(state)) => last.op = "startLoad"

\* startLoad was dispatched after a load had completed: isLoading was false and is
\* true again.
C17_Witness ==
  /\ last.op = "startLoad"
  /\ ~getIsLoading(prev)
  /\ getIsLoading(state)
  /\ state.articles # NoMap \/ state.categories # NoMap

(***************************************************************************)
(* C18.  The lists are changed only by a completed load and by a           *)
(* transition: startLoad changes nothing but isLoading and is idempotent,  *)
(* and the selectors leave the store as it was; reading a scope the store  *)
(* does not have does not add the scope.                                   *)
(***************************************************************************)
C18_OnlyLoadAndTransitionChangeLists ==
  /\ (state.articles # prev.articles \/ state.categories # prev.categories)
       => last.op \in {"load", "transition"}
  /\ last.op = "startLoad"
       => /\ state = [prev EXCEPT !.isLoading = TRUE]
          /\ [state EXCEPT !.isLoading = TRUE] = state
  /\ last.op \in {"read", "readIsLoading"} => state = prev
  /\ (last.op = "read" /\ last.scope \notin DOMAIN Before) => last.scope \notin DOMAIN After

\* The selector was read for an article the store does not have, in a store that
\* has categories: the article is still absent.
C18_Witness ==
  /\ last.op = "read"
  /\ ~last.isCategory
  /\ last.scope \notin DOMAIN prev.articles
  /\ prev.categories # NoMap
  /\ last.scope \notin DOMAIN state.articles
  /\ state = prev

(***************************************************************************)
(* C19.  As the spec has it: no transition with one of the actions         *)
(* approve, reject, defer, highlight, reset throws, whatever the store     *)
(* state, a scope that was never loaded included.  The reducer breaks      *)
(* this: updateIn on a scope the store does not have hands the updater     *)
(* undefined.                                                              *)
(***************************************************************************)
C19_TransitionNeverThrows ==
  (/\ last.op = "transition"
   /\ last.moderationAction \in {"approve", "reject", "defer", "highlight", "reset"}
   /\ last.currentModeration \in BucketNames)
    => ~last.threw

\* The failing input of C19: in the initial store, an approve of a rejected
\* comment of a category that was never loaded throws.
C19_UnloadedScopeThrows ==
  /\ last.op = "transition"
  /\ last.isCategory
  /\ prev = initialState
  /\ last.commentIds = <<"c1">>
  /\ last.moderationAction = "approve"
  /\ last.currentModeration = "rejected"
  /\ last.threw
  /\ state = prev

(***************************************************************************)
(* C20.  A moderation action proceeds in the order: optimistic update of   *)
(* the comment record, then the remote moderation call, then the           *)
(* transition in the moderated-comments store.  The transition is never    *)
(* applied before the remote call of the action has completed, and it      *)
(* carries the action sent and the status the comment had before the       *)
(* action: the list that held the comment.                                 *)
(***************************************************************************)
C20_UpdateThenRemoteThenTransition ==
  /\ (detail.remote # "none" /\ detail.props.onUpdateComment) => detail.updateCalled
  /\ detail.updateCalled => detail.comment = getChangeByAction(detail.comment, detail.commentAction)
  /\ last.op = "transition"
       => /\ detail.remote = "resolved"
          /\ detail.props.onUpdateComment => detail.updateCalled
          /\ last.commentIds = <<detail.comment.id>>
          /\ last.moderationAction = detail.commentAction
          /\ last.currentModeration = detail.currentModeration
          /\ Contains(Before[last.scope][last.currentModeration], detail.comment.id)
  /\ last.op # "transition" => state = prev

\* A rejected comment of a category was approved with every prop given: the
\* record was updated, the remote call resolved, and the transition took the
\* comment from rejected to approved.
C20_Witness ==
  /\ detail.pc = "done"
  /\ detail.props.onUpdateComment
  /\ detail.props.onCommentAction
  /\ detail.updateCalled
  /\ detail.remote = "resolved"
  /\ detail.comment.isAccepted = "true"
  /\ last.op = "transition"
  /\ last.isCategory
  /\ last.moderationAction = "approve"
  /\ last.currentModeration = "rejected"
  /\ ~last.threw
  /\ ~Contains(After[last.scope]["rejected"], detail.comment.id)
  /\ Contains(After[last.scope]["approved"], detail.comment.id)

(***************************************************************************)
(* C21.  As the spec has it: when the remote moderation call of an action  *)
(* fails, moderateComment rejects and the transition of the action is      *)
(* applied to the store all the same.                                      *)
(***************************************************************************)
C21_TransitionAppliedOnFailure ==
  detail.remote = "rejected"
    => /\ detail.pc = "rejected"
       /\ detail.props.onCommentAction => last.op = "transition"

(***************************************************************************)
(* C21, amended.  When the remote moderation call of an action fails,      *)
(* moderateComment rejects and the transition of the action is not         *)
(* applied: onCommentAction is not called and the store stays as it was.   *)
(***************************************************************************)
C21_NoTransitionOnFailure ==
  detail.remote = "rejected"
    => /\ detail.pc = "rejected"
       /\ last.op = "none"
       /\ state = prev

\* The remote call of an action failed in a component that was given
\* onCommentAction: moderateComment rejected and nothing was dispatched.
C21_Witness ==
  /\ detail.remote = "rejected"
  /\ detail.pc = "rejected"
  /\ detail.props.onCommentAction
  /\ detail.commentAction = "approve"
  /\ detail.currentModeration = "rejected"
  /\ last.op = "none"

(***************************************************************************)
(* C22.  When the remote moderation call fails, the optimistic update made *)
(* to the comment record is not rolled back: the record keeps the values   *)
(* the action gave it.                                                     *)
(***************************************************************************)
C22_NoRollbackOnFailure ==
  (detail.remote = "rejected" /\ detail.updateCalled)
    => /\ detail.comment = getChangeByAction(detail.commentBefore, detail.commentAction)
       /\ \A f \in DOMAIN ATTRIBUTES(detail.commentAction) :
            detail.comment[f] = ATTRIBUTES(detail.commentAction)[f]

\* A rejected comment was approved and the remote call failed: the record says
\* accepted, which it did not before.
C22_Witness ==
  /\ detail.remote = "rejected"
  /\ detail.updateCalled
  /\ detail.commentAction = "approve"
  /\ detail.commentBefore.isAccepted = "false"
  /\ detail.comment.isAccepted = "true"

\* The last action was a transition of one id that the list named by
\* currentModeration held, it did not throw, and its insertion step wrote nothing
\* to that list (the articles handler drops what its insertions return): what is
\* left in the list shows whether the removal step removed the id.
RemovalObservable ==
  /\ last.op = "transition"
  /\ Len(last.commentIds) = 1
  /\ last.currentModeration \in BucketNames
  /\ last.scope \in DOMAIN Before
  /\ Contains(Before[last.scope][last.currentModeration], last.commentIds[1])
  /\ ~last.threw
  /\ \/ ~last.isCategory
     \/ /\ ~(last.moderationAction = "highlight" /\ last.currentModeration = "approved")
        /\ \/ last.moderationAction = "reset"
           \/ ACTION_PLURAL(last.moderationAction) # last.currentModeration

\* The list currentModeration of the addressed scope after the last transition is
\* the list before without the id if removes, and the list before otherwise.
RemovalObserved(removes) ==
  After[last.scope][last.currentModeration] =
    IF removes
    THEN WithoutFirst(Before[last.scope][last.currentModeration], last.commentIds[1])
    ELSE Before[last.scope][last.currentModeration]

(***************************************************************************)
(* C24.  As the spec has it: the removal step removes the id from the      *)
(* previousStatus list exactly when previousStatus is neither 'batched'    *)
(* nor 'automated' and neither (previousStatus is 'highlighted' and the    *)
(* action is 'highlight') nor (previousStatus is not 'highlighted' and the *)
(* action is not 'highlight').                                             *)
(***************************************************************************)
C24_RemovesWhenNeither ==
  RemovalObservable
    => RemovalObserved(/\ last.currentModeration \notin {"batched", "automated"}
                       /\ ~(last.currentModeration = "highlighted"
                            /\ last.moderationAction = "highlight")
                       /\ ~(last.currentModeration # "highlighted"
                            /\ last.moderationAction # "highlight"))

(***************************************************************************)
(* C24, amended.  The removal step removes the id from the previousStatus  *)
(* list exactly when previousStatus is neither 'batched' nor 'automated'   *)
(* and either (previousStatus is 'highlighted' and the action is           *)
(* 'highlight') or (previousStatus is not 'highlighted' and the action is  *)
(* not 'highlight').                                                       *)
(***************************************************************************)
C24_RemovesWhenEither ==
  RemovalObservable
    => RemovalObserved(/\ last.currentModeration \notin {"batched", "automated"}
                       /\ \/ (last.currentModeration = "highlighted"
                              /\ last.moderationAction = "highlight")
                          \/ (last.currentModeration # "highlighted"
                              /\ last.moderationAction # "highlight"))

\* A rejected comment of a category was approved from the rejected list and the
\* removal step took it out of rejected.
C24_Witness ==
  /\ RemovalObservable
  /\ last.isCategory
  /\ last.moderationAction = "approve"
  /\ last.currentModeration = "rejected"
  /\ ~Contains(After[last.scope]["rejected"], last.commentIds[1])
  /\ Before[last.scope]["rejected"] = <<"c1", "c2">>

(***************************************************************************)
(* C25.  As the spec has it: the articles handler and the categories       *)
(* handler implement the same transition.  From the same lists, the same   *)
(* commentIds, action (approve, reject, defer, highlight or reset) and     *)
(* previousStatus give the same lists, and both calls complete or both     *)
(* throw.  The reducer breaks this: the articles handler drops what its    *)
(* insertions return and throws on every highlight.                        *)
(***************************************************************************)
C25_HandlersAgree ==
  (/\ last.op = "transition"
   /\ last.moderationAction \in {"approve", "reject", "defer", "highlight", "reset"}
   /\ last.scope \in DOMAIN Before
   /\ last.scope \in DOMAIN OtherBefore
   /\ OtherBefore[last.scope] = Before[last.scope])
    => LET other == Handler(OtherBefore, ~last.isCategory, last.scope, last.commentIds,
                            last.moderationAction, last.currentModeration)
       IN /\ other.threw = last.threw
          /\ other.map[last.scope] = After[last.scope]

\* The failing input of C25: article 1 and category 1 hold the same lists, c1 in
\* rejected; approving c1 from rejected puts it in approved of the category and in
\* no list of the article.
C25_ArticleDropsInsertion ==
  /\ last.op = "transition"
  /\ ~last.isCategory
  /\ last.commentIds = <<"c1">>
  /\ last.moderationAction = "approve"
  /\ last.currentModeration = "rejected"
  /\ Before["1"]["rejected"] = <<"c1">>
  /\ OtherBefore["1"] = Before["1"]
  /\ last.scope = "1"
  /\ ~last.threw
  /\ After["1"]["approved"] = <<>>
  /\ After["1"]["rejected"] = <<>>
  /\ LET other == Handler(OtherBefore, TRUE, "1", <<"c1">>, "approve", "rejected")
     IN ~other.threw /\ other.map["1"]["approved"] = <<"c1">>

(***************************************************************************)
(* C26.  As the spec has it: a transition changes list membership only for *)
(* the ids of commentIds.  Every other id is in a list of a scope after    *)
(* the transition if and only if it was before, for every action and every *)
(* previousStatus, a stale one included.  The reducer breaks this: with a  *)
(* stale previousStatus the removal step deletes the last id of the list.  *)
(***************************************************************************)
C26_OnlyListedIdsChange ==
  last.op = "transition"
    => \A i \in Ids :
         (\A n \in 1..Len(last.commentIds) : last.commentIds[n] # i)
           => /\ \A k \in DOMAIN Before : \A b \in BucketNames :
                   Contains(After[k][b], i) <=> Contains(Before[k][b], i)
              /\ \A k \in DOMAIN OtherBefore : \A b \in BucketNames :
                   Contains(OtherAfter[k][b], i) <=> Contains(OtherBefore[k][b], i)

\* The failing input of C26: category 1 holds c2 alone in approved; rejecting c1
\* from approved, where it is not, takes c2 out of approved.
C26_StaleRemovalDropsOtherId ==
  /\ last.op = "transition"
  /\ last.isCategory
  /\ last.commentIds = <<"c1">>
  /\ last.moderationAction = "reject"
  /\ last.currentModeration = "approved"
  /\ last.scope \in DOMAIN Before
  /\ Before[last.scope]["approved"] = <<"c2">>
  /\ ~last.threw
  /\ After[last.scope]["approved"] = <<>>
  /\ After[last.scope]["rejected"] = <<"c1">>

(***************************************************************************)
(* C30.  moderateComment(action) sends 'reset' (in the optimistic update,  *)
(* the remote call and onCommentAction) exactly when action is among the   *)
(* active buttons of the comment, and action itself otherwise.  The active *)
(* buttons are 'defer' alone when the comment is deferred; otherwise       *)
(* 'approve' or 'reject' according to isAccepted, and 'highlight' when     *)
(* isHighlighted.  They never hold two of approve, reject, defer.          *)
(***************************************************************************)
C30_ResetWhenActive ==
  LET comment == detail.commentBefore
      activeButtons == getActiveButtons(comment)
      decision == (IF comment.isAccepted = "true" THEN {"approve"} ELSE {})
                    \cup (IF comment.isAccepted = "false" THEN {"reject"} ELSE {})
      expected == IF comment.isDeferred THEN {"defer"}
                  ELSE decision \cup (IF comment.isHighlighted THEN {"highlight"} ELSE {})
      sent == IF detail.action \in expected THEN "reset" ELSE detail.action
  IN /\ {activeButtons[n] : n \in 1..Len(activeButtons)} = expected
     /\ Cardinality({n \in 1..Len(activeButtons) :
                       activeButtons[n] \in {"approve", "reject", "defer"}}) <= 1
     /\ detail.pc # "idle"
          => /\ detail.commentAction = sent
             /\ detail.confirmationAction = sent
             /\ detail.updateCalled
                  => \A f \in DOMAIN ATTRIBUTES(sent) : detail.comment[f] = ATTRIBUTES(sent)[f]
             /\ detail.remote # "none" => detail.remoteAction = sent
             /\ last.op = "transition" => last.moderationAction = sent

\* A deferred comment that is also accepted and highlighted: 'defer' was pressed
\* and 'reset' was sent, to the comment store, the service and the list store.
C30_Witness ==
  /\ detail.pc = "done"
  /\ detail.commentBefore.isDeferred
  /\ detail.commentBefore.isAccepted = "true"
  /\ detail.commentBefore.isHighlighted
  /\ detail.action = "defer"
  /\ detail.commentAction = "reset"
  /\ detail.updateCalled
  /\ detail.remoteAction = "reset"
  /\ last.op = "transition"
  /\ last.moderationAction = "reset"

(***************************************************************************)
(* C27.  isLoading is true whenever at least one call of                   *)
(* loadModeratedCommentsForArticle or ...ForCategory has dispatched        *)
(* startLoad and not yet its completeLoad, also when several calls         *)
(* overlap.  The store breaks this: isLoading is one flag, and the first   *)
(* call to complete clears it for all.                                     *)
(***************************************************************************)
C27_LoadingWhileAnyLoadInProgress ==
  (\E l \in LoadIds : loads[l].pc \in {"started", "fetching"}) => getIsLoading(state)

\* The failing input of C27: loads of article 1 and of category 1 overlap; the
\* fetch of the first has returned and the second is still fetching.
C27_FirstCompletionClearsFlag ==
  /\ loads[1].pc = "done" /\ ~loads[1].isCategory /\ loads[1].scope = "1"
  /\ loads[2].pc = "fetching" /\ loads[2].isCategory /\ loads[2].scope = "1"
  /\ last.op = "load"
  /\ ~getIsLoading(state)

(***************************************************************************)
(* C28.  When two loads of the same scope overlap, the state of the scope  *)
(* after both have completed is the data returned to the load that was     *)
(* started last, in whatever order the two fetches return.  The store      *)
(* breaks this: the data of the fetch that returns last stays.             *)
(***************************************************************************)
C28_LastStartedLoadWins ==
  \A l, m \in LoadIds :
    (/\ loads[l].pc = "done" /\ loads[m].pc = "done"
     /\ loads[l].isCategory = loads[m].isCategory
     /\ loads[l].scope = loads[m].scope
     /\ loads[l].started < loads[m].started
     /\ \A n \in LoadIds : loads[n].pc \in {"done", "failed"}
     /\ \A n \in LoadIds \ {l, m} : loads[n].pc = "failed")
      => getModeratedComments(state, ~loads[m].isCategory, loads[m].scope)
           = loads[m].moderatedComments

\* The failing input of C28: two loads of category 1; the fetch of the second
\* returned c1 as approved, then the fetch of the first returned c1 as rejected,
\* which is what the store holds.
C28_StaleFetchOverwrites ==
  /\ loads[1].pc = "done" /\ loads[1].isCategory /\ loads[1].scope = "1"
  /\ loads[2].pc = "done" /\ loads[2].isCategory /\ loads[2].scope = "1"
  /\ loads[1].started < loads[2].started
  /\ loads[1].moderatedComments["rejected"] = <<"c1">>
  /\ loads[2].moderatedComments["approved"] = <<"c1">>
  /\ state.categories["1"] = loads[1].moderatedComments

(***************************************************************************)
(* C29.  Every load that dispatches startLoad is eventually followed by a  *)
(* state with isLoading false, whether its fetch succeeds or fails: once   *)
(* no call is in progress any more, isLoading is false.  The code breaks   *)
(* this: a call whose fetch fails dispatches nothing, and isLoading stays  *)
(* true.                                                                   *)
(***************************************************************************)
C29_NotLoadingOnceLoadsSettled ==
  (/\ \E l \in LoadIds : loads[l].pc # "idle"
   /\ \A l \in LoadIds : loads[l].pc \in {"idle", "done", "failed"})
    => ~getIsLoading(state)

\* The failing input of C29: from a store that is not loading, one load of
\* article 1 is started and its fetch fails; no call is in progress and
\* isLoading is true.
C29_FailedFetchLeavesLoading ==
  /\ loads[1].pc = "failed" /\ ~loads[1].isCategory /\ loads[1].scope = "1"
  /\ \A l \in LoadIds \ {1} : loads[l].pc = "idle"
  /\ state.articles # NoMap
  /\ getIsLoading(state)

\* The store after the list transitions of the calls on the given comments, each
\* applied whole to the result of the one before.
RECURSIVE ApplyCalls(_, _)
ApplyCalls(stateRecord, order) ==
  IF order = <<>> THEN stateRecord
  ELSE LET d == detail.calls[Head(order)]
       IN ApplyCalls(onCommentAction(stateRecord, d.contextProps, d.currentModeration,
                                     d.commentAction, <<d.comment.id>>).state,
                     Tail(order))

\* Two stores hold every comment id the same number of times in every list of
\* every scope.
SameMembership(s, t) ==
  /\ s.isLoading = t.isLoading
  /\ \A m \in {"articles", "categories"} :
       /\ DOMAIN s[m] = DOMAIN t[m]
       /\ \A k \in DOMAIN s[m] : \A b \in BucketNames : \A i \in Ids :
            Count(s[m][k][b], i) = Count(t[m][k][b], i)

C31_ToastHiddenWhenCallEnds ==
  /\ detail.pc \in {"done", "rejected"} => ~detail.isConfirmationModalVisible
  /\ (detail.pc \notin {"unmounted", "idle"} /\ ~detail.isConfirmationModalVisible) =>
       /\ detail.remote = "resolved"
       /\ detail.timer = "elapsed"

\* C31 witness: the remote call failed, the call has ended and the toast is
\* still shown.
C31_ToastLeftAfterFailure ==
  /\ detail.pc = "rejected"
  /\ detail.remote = "rejected"
  /\ detail.isConfirmationModalVisible

====
